---- MODULE Spec2Model ----
(***************************************************************************)
(* Model of hdfm's command line front end (src/src/interface.py):          *)
(* UserInterface.process validates the argument tokens and fills in the    *)
(* NRSC5 object and the UserInterface options; NRSC5.format_cmd builds the *)
(* nrsc5 command vector; __main__ calls process, format_cmd and start.     *)
(*                                                                         *)
(* A Python str is modelled as a sequence of one-character strings, so     *)
(* that args[i][0], int(), float() and str() are computed character by     *)
(* character.  Python indexes from 0, the model from 1: args[i] of the     *)
(* source is a[i + 1] here.  Lines written to standard output are kept as  *)
(* whole strings.                                                          *)
(***************************************************************************)
EXTENDS Integers, Sequences, FiniteSets, TLC

(* ------------------------------ bounds -------------------------------- *)

\* Argument tokens (after the program name) over all process calls of a run.
MaxTokens == 3
\* Calls of process on the same UserInterface object.
MaxCalls == 2

(* ------------------------------ tokens -------------------------------- *)

prog == <<"p", "r", "o", "g">>
t_h == <<"-", "h">>
t_help == <<"-", "-", "h", "e", "l", "p">>
t_c == <<"-", "c">>
t_p == <<"-", "p">>
t_l == <<"-", "l">>
t_a == <<"-", "a">>
t_s == <<"-", "s">>
t_x == <<"-", "x">>
t_1 == <<"1">>
t_2 == <<"2">>
t_3 == <<"3">>
t_5 == <<"5">>
t_neg5 == <<"-", "5">>
t_90 == <<"9", "0">>
t_95_5 == <<"9", "5", ".", "5">>
t_108_1 == <<"1", "0", "8", ".", "1">>
t_nan == <<"n", "a", "n">>
t_inf == <<"i", "n", "f">>
t_tmp == <<"/", "t", "m", "p">>
t_empty == <<>>
\* Other spellings int() and float() read.
t_sp2 == <<" ", "2">>
t_2nl == <<"2", "U+000A">>
t_0_2 == <<"0", "_", "2">>
t_ar3 == <<"U+0663">>
t_NaN == <<"N", "a", "N">>
t_1e2 == <<"1", "e", "2">>
t_sp95_5 == <<" ", "9", "5", ".", "5">>
t_9_5_5 == <<"9", "_", "5", ".", "5">>
t_Infinity == <<"I", "n", "f", "i", "n", "i", "t", "y">>
t_below88 == <<"8", "7", ".", "9", "9", "9", "9", "9", "9", "9", "9", "9", "9", "9", "9", "9", "9", "9", "9", "9", "9", "9", "9">>
t_above108 == <<"1", "0", "8", ".", "0", "0", "0", "0", "0", "0", "0", "0", "0", "0", "0", "0", "0", "0", "0", "0", "0", "0", "0", "1">>
t_neg0 == <<"-", "0">>
t_long == <<"9", "5", ".", "1", "2", "3", "4", "5", "6", "7", "8", "9">>

\* The tokens a command line is drawn from.
Tokens ==
    { t_h, t_c, t_p, t_l, t_a, t_s, t_x,
      t_2, t_neg5, t_90, t_95_5, t_nan, t_tmp }

\* Longer command lines, given to the first call only.
Examples ==
    { <<prog, t_c, t_2, t_p, t_5, t_95_5>>,
      <<prog, t_c, t_2, t_l, t_5, t_p, t_5, t_95_5>>,
      <<prog, t_p, t_5, t_c, t_5, t_l, t_2, t_90>>,
      <<prog, t_s, t_tmp, t_a, t_2, t_l, t_2, t_p, t_90>>,
      <<prog, t_c, t_2, t_c, t_5, t_95_5>>,
      <<prog, t_c, t_2, t_c, t_3, t_95_5>>,
      <<prog, t_p, t_5, t_l, t_2, t_p, t_2, t_l, t_1, t_c, t_1, t_c, t_2, t_90>>,
      <<prog, t_s, t_2, t_c, t_2, t_108_1>>,
      <<prog, t_c, t_2, t_inf>>,
      <<prog, t_a, t_2, t_help, t_95_5>>,
      <<prog, t_a, t_empty, t_95_5>>,
      <<prog, t_c, t_sp2, t_p, t_ar3, t_l, t_0_2, t_1e2>>,
      <<prog, t_c, t_2nl, t_sp95_5>>,
      <<prog, t_l, t_2, t_9_5_5>>,
      <<prog, t_NaN>>,
      <<prog, t_c, t_2, t_Infinity>>,
      <<prog, t_p, t_5, t_below88>>,
      <<prog, t_p, t_5, t_above108>>,
      <<prog, t_neg0>>,
      <<prog, t_c, t_2, t_long>> }

\* Directories that exist; os.path.isdir is false of everything else.
ExistingDirs == { t_tmp }

(* --------------------- Python built-in conversions -------------------- *)
(* A character is a string: a printable ASCII character is itself, every   *)
(* other character is named by its code point, "U+00A0".  An int is a      *)
(* record [neg, mag] with mag its decimal digits, most significant first   *)
(* and without leading zeros (no digit for 0).  A float is a record        *)
(* [kind, neg, digits, pt]: kind "num" is the double whose shortest        *)
(* decimal that rounds to it is 0.d1 d2 ... dn * 10^pt (the digits repr    *)
(* prints, which name the double uniquely; no digit for 0.0), and kinds    *)
(* "inf", "nan" and "None" carry no digits.                                *)

Whitespace ==
    { "U+0009", "U+000A", "U+000B", "U+000C", "U+000D", " ", "U+0085",
      "U+00A0", "U+1680", "U+2000", "U+2001", "U+2002", "U+2003", "U+2004",
      "U+2005", "U+2006", "U+2007", "U+2008", "U+2009", "U+200A", "U+2028",
      "U+2029", "U+202F", "U+205F", "U+3000" }

DecimalBlocks ==
    << <<"0", "1", "2", "3", "4", "5", "6", "7", "8", "9">>,
       <<"U+0660", "U+0661", "U+0662", "U+0663", "U+0664", "U+0665", "U+0666", "U+0667", "U+0668", "U+0669">>,
       <<"U+06F0", "U+06F1", "U+06F2", "U+06F3", "U+06F4", "U+06F5", "U+06F6", "U+06F7", "U+06F8", "U+06F9">>,
       <<"U+07C0", "U+07C1", "U+07C2", "U+07C3", "U+07C4", "U+07C5", "U+07C6", "U+07C7", "U+07C8", "U+07C9">>,
       <<"U+0966", "U+0967", "U+0968", "U+0969", "U+096A", "U+096B", "U+096C", "U+096D", "U+096E", "U+096F">>,
       <<"U+09E6", "U+09E7", "U+09E8", "U+09E9", "U+09EA", "U+09EB", "U+09EC", "U+09ED", "U+09EE", "U+09EF">>,
       <<"U+0A66", "U+0A67", "U+0A68", "U+0A69", "U+0A6A", "U+0A6B", "U+0A6C", "U+0A6D", "U+0A6E", "U+0A6F">>,
       <<"U+0AE6", "U+0AE7", "U+0AE8", "U+0AE9", "U+0AEA", "U+0AEB", "U+0AEC", "U+0AED", "U+0AEE", "U+0AEF">>,
       <<"U+0B66", "U+0B67", "U+0B68", "U+0B69", "U+0B6A", "U+0B6B", "U+0B6C", "U+0B6D", "U+0B6E", "U+0B6F">>,
       <<"U+0BE6", "U+0BE7", "U+0BE8", "U+0BE9", "U+0BEA", "U+0BEB", "U+0BEC", "U+0BED", "U+0BEE", "U+0BEF">>,
       <<"U+0C66", "U+0C67", "U+0C68", "U+0C69", "U+0C6A", "U+0C6B", "U+0C6C", "U+0C6D", "U+0C6E", "U+0C6F">>,
       <<"U+0CE6", "U+0CE7", "U+0CE8", "U+0CE9", "U+0CEA", "U+0CEB", "U+0CEC", "U+0CED", "U+0CEE", "U+0CEF">>,
       <<"U+0D66", "U+0D67", "U+0D68", "U+0D69", "U+0D6A", "U+0D6B", "U+0D6C", "U+0D6D", "U+0D6E", "U+0D6F">>,
       <<"U+0DE6", "U+0DE7", "U+0DE8", "U+0DE9", "U+0DEA", "U+0DEB", "U+0DEC", "U+0DED", "U+0DEE", "U+0DEF">>,
       <<"U+0E50", "U+0E51", "U+0E52", "U+0E53", "U+0E54", "U+0E55", "U+0E56", "U+0E57", "U+0E58", "U+0E59">>,
       <<"U+0ED0", "U+0ED1", "U+0ED2", "U+0ED3", "U+0ED4", "U+0ED5", "U+0ED6", "U+0ED7", "U+0ED8", "U+0ED9">>,
       <<"U+0F20", "U+0F21", "U+0F22", "U+0F23", "U+0F24", "U+0F25", "U+0F26", "U+0F27", "U+0F28", "U+0F29">>,
       <<"U+1040", "U+1041", "U+1042", "U+1043", "U+1044", "U+1045", "U+1046", "U+1047", "U+1048", "U+1049">>,
       <<"U+1090", "U+1091", "U+1092", "U+1093", "U+1094", "U+1095", "U+1096", "U+1097", "U+1098", "U+1099">>,
       <<"U+17E0", "U+17E1", "U+17E2", "U+17E3", "U+17E4", "U+17E5", "U+17E6", "U+17E7", "U+17E8", "U+17E9">>,
       <<"U+1810", "U+1811", "U+1812", "U+1813", "U+1814", "U+1815", "U+1816", "U+1817", "U+1818", "U+1819">>,
       <<"U+1946", "U+1947", "U+1948", "U+1949", "U+194A", "U+194B", "U+194C", "U+194D", "U+194E", "U+194F">>,
       <<"U+19D0", "U+19D1", "U+19D2", "U+19D3", "U+19D4", "U+19D5", "U+19D6", "U+19D7", "U+19D8", "U+19D9">>,
       <<"U+1A80", "U+1A81", "U+1A82", "U+1A83", "U+1A84", "U+1A85", "U+1A86", "U+1A87", "U+1A88", "U+1A89">>,
       <<"U+1A90", "U+1A91", "U+1A92", "U+1A93", "U+1A94", "U+1A95", "U+1A96", "U+1A97", "U+1A98", "U+1A99">>,
       <<"U+1B50", "U+1B51", "U+1B52", "U+1B53", "U+1B54", "U+1B55", "U+1B56", "U+1B57", "U+1B58", "U+1B59">>,
       <<"U+1BB0", "U+1BB1", "U+1BB2", "U+1BB3", "U+1BB4", "U+1BB5", "U+1BB6", "U+1BB7", "U+1BB8", "U+1BB9">>,
       <<"U+1C40", "U+1C41", "U+1C42", "U+1C43", "U+1C44", "U+1C45", "U+1C46", "U+1C47", "U+1C48", "U+1C49">>,
       <<"U+1C50", "U+1C51", "U+1C52", "U+1C53", "U+1C54", "U+1C55", "U+1C56", "U+1C57", "U+1C58", "U+1C59">>,
       <<"U+A620", "U+A621", "U+A622", "U+A623", "U+A624", "U+A625", "U+A626", "U+A627", "U+A628", "U+A629">>,
       <<"U+A8D0", "U+A8D1", "U+A8D2", "U+A8D3", "U+A8D4", "U+A8D5", "U+A8D6", "U+A8D7", "U+A8D8", "U+A8D9">>,
       <<"U+A900", "U+A901", "U+A902", "U+A903", "U+A904", "U+A905", "U+A906", "U+A907", "U+A908", "U+A909">>,
       <<"U+A9D0", "U+A9D1", "U+A9D2", "U+A9D3", "U+A9D4", "U+A9D5", "U+A9D6", "U+A9D7", "U+A9D8", "U+A9D9">>,
       <<"U+A9F0", "U+A9F1", "U+A9F2", "U+A9F3", "U+A9F4", "U+A9F5", "U+A9F6", "U+A9F7", "U+A9F8", "U+A9F9">>,
       <<"U+AA50", "U+AA51", "U+AA52", "U+AA53", "U+AA54", "U+AA55", "U+AA56", "U+AA57", "U+AA58", "U+AA59">>,
       <<"U+ABF0", "U+ABF1", "U+ABF2", "U+ABF3", "U+ABF4", "U+ABF5", "U+ABF6", "U+ABF7", "U+ABF8", "U+ABF9">>,
       <<"U+FF10", "U+FF11", "U+FF12", "U+FF13", "U+FF14", "U+FF15", "U+FF16", "U+FF17", "U+FF18", "U+FF19">>,
       <<"U+104A0", "U+104A1", "U+104A2", "U+104A3", "U+104A4", "U+104A5", "U+104A6", "U+104A7", "U+104A8", "U+104A9">>,
       <<"U+10D30", "U+10D31", "U+10D32", "U+10D33", "U+10D34", "U+10D35", "U+10D36", "U+10D37", "U+10D38", "U+10D39">>,
       <<"U+11066", "U+11067", "U+11068", "U+11069", "U+1106A", "U+1106B", "U+1106C", "U+1106D", "U+1106E", "U+1106F">>,
       <<"U+110F0", "U+110F1", "U+110F2", "U+110F3", "U+110F4", "U+110F5", "U+110F6", "U+110F7", "U+110F8", "U+110F9">>,
       <<"U+11136", "U+11137", "U+11138", "U+11139", "U+1113A", "U+1113B", "U+1113C", "U+1113D", "U+1113E", "U+1113F">>,
       <<"U+111D0", "U+111D1", "U+111D2", "U+111D3", "U+111D4", "U+111D5", "U+111D6", "U+111D7", "U+111D8", "U+111D9">>,
       <<"U+112F0", "U+112F1", "U+112F2", "U+112F3", "U+112F4", "U+112F5", "U+112F6", "U+112F7", "U+112F8", "U+112F9">>,
       <<"U+11450", "U+11451", "U+11452", "U+11453", "U+11454", "U+11455", "U+11456", "U+11457", "U+11458", "U+11459">>,
       <<"U+114D0", "U+114D1", "U+114D2", "U+114D3", "U+114D4", "U+114D5", "U+114D6", "U+114D7", "U+114D8", "U+114D9">>,
       <<"U+11650", "U+11651", "U+11652", "U+11653", "U+11654", "U+11655", "U+11656", "U+11657", "U+11658", "U+11659">>,
       <<"U+116C0", "U+116C1", "U+116C2", "U+116C3", "U+116C4", "U+116C5", "U+116C6", "U+116C7", "U+116C8", "U+116C9">>,
       <<"U+11730", "U+11731", "U+11732", "U+11733", "U+11734", "U+11735", "U+11736", "U+11737", "U+11738", "U+11739">>,
       <<"U+118E0", "U+118E1", "U+118E2", "U+118E3", "U+118E4", "U+118E5", "U+118E6", "U+118E7", "U+118E8", "U+118E9">>,
       <<"U+11950", "U+11951", "U+11952", "U+11953", "U+11954", "U+11955", "U+11956", "U+11957", "U+11958", "U+11959">>,
       <<"U+11C50", "U+11C51", "U+11C52", "U+11C53", "U+11C54", "U+11C55", "U+11C56", "U+11C57", "U+11C58", "U+11C59">>,
       <<"U+11D50", "U+11D51", "U+11D52", "U+11D53", "U+11D54", "U+11D55", "U+11D56", "U+11D57", "U+11D58", "U+11D59">>,
       <<"U+11DA0", "U+11DA1", "U+11DA2", "U+11DA3", "U+11DA4", "U+11DA5", "U+11DA6", "U+11DA7", "U+11DA8", "U+11DA9">>,
       <<"U+16A60", "U+16A61", "U+16A62", "U+16A63", "U+16A64", "U+16A65", "U+16A66", "U+16A67", "U+16A68", "U+16A69">>,
       <<"U+16AC0", "U+16AC1", "U+16AC2", "U+16AC3", "U+16AC4", "U+16AC5", "U+16AC6", "U+16AC7", "U+16AC8", "U+16AC9">>,
       <<"U+16B50", "U+16B51", "U+16B52", "U+16B53", "U+16B54", "U+16B55", "U+16B56", "U+16B57", "U+16B58", "U+16B59">>,
       <<"U+1D7CE", "U+1D7CF", "U+1D7D0", "U+1D7D1", "U+1D7D2", "U+1D7D3", "U+1D7D4", "U+1D7D5", "U+1D7D6", "U+1D7D7">>,
       <<"U+1D7D8", "U+1D7D9", "U+1D7DA", "U+1D7DB", "U+1D7DC", "U+1D7DD", "U+1D7DE", "U+1D7DF", "U+1D7E0", "U+1D7E1">>,
       <<"U+1D7E2", "U+1D7E3", "U+1D7E4", "U+1D7E5", "U+1D7E6", "U+1D7E7", "U+1D7E8", "U+1D7E9", "U+1D7EA", "U+1D7EB">>,
       <<"U+1D7EC", "U+1D7ED", "U+1D7EE", "U+1D7EF", "U+1D7F0", "U+1D7F1", "U+1D7F2", "U+1D7F3", "U+1D7F4", "U+1D7F5">>,
       <<"U+1D7F6", "U+1D7F7", "U+1D7F8", "U+1D7F9", "U+1D7FA", "U+1D7FB", "U+1D7FC", "U+1D7FD", "U+1D7FE", "U+1D7FF">>,
       <<"U+1E140", "U+1E141", "U+1E142", "U+1E143", "U+1E144", "U+1E145", "U+1E146", "U+1E147", "U+1E148", "U+1E149">>,
       <<"U+1E2F0", "U+1E2F1", "U+1E2F2", "U+1E2F3", "U+1E2F4", "U+1E2F5", "U+1E2F6", "U+1E2F7", "U+1E2F8", "U+1E2F9">>,
       <<"U+1E950", "U+1E951", "U+1E952", "U+1E953", "U+1E954", "U+1E955", "U+1E956", "U+1E957", "U+1E958", "U+1E959">>,
       <<"U+1FBF0", "U+1FBF1", "U+1FBF2", "U+1FBF3", "U+1FBF4", "U+1FBF5", "U+1FBF6", "U+1FBF7", "U+1FBF8", "U+1FBF9">> >>

LowerCase ==
    "A" :> "a" @@ "B" :> "b" @@ "C" :> "c" @@ "D" :> "d" @@ "E" :> "e" @@ "F" :> "f" @@ "G" :> "g" @@
    "H" :> "h" @@ "I" :> "i" @@ "J" :> "j" @@ "K" :> "k" @@ "L" :> "l" @@ "M" :> "m" @@ "N" :> "n" @@
    "O" :> "o" @@ "P" :> "p" @@ "Q" :> "q" @@ "R" :> "r" @@ "S" :> "s" @@ "T" :> "t" @@ "U" :> "u" @@
    "V" :> "v" @@ "W" :> "w" @@ "X" :> "x" @@ "Y" :> "y" @@ "Z" :> "z"

\* The value of a decimal digit character (Unicode category Nd).
DecimalValue ==
    [c \in UNION { { DecimalBlocks[j][k] : k \in 1..10 } : j \in DOMAIN DecimalBlocks } |->
        CHOOSE v \in 0..9 : \E j \in DOMAIN DecimalBlocks : DecimalBlocks[j][v + 1] = c]

DigitChr == <<"0", "1", "2", "3", "4", "5", "6", "7", "8", "9">>

\* The least member of a set of integers that has one.
Least(S) == CHOOSE k \in S : \A j \in S : k <= j

Lower(c) == IF c \in DOMAIN LowerCase THEN LowerCase[c] ELSE c

\* The string without the whitespace before it, and after it.
LStrip(s) ==
    LET ink == { k \in 1..Len(s) : s[k] \notin Whitespace }
    IN  IF ink = {} THEN <<>> ELSE SubSeq(s, Least(ink), Len(s))

RStrip(s) ==
    LET ink == { k \in 1..Len(s) : s[Len(s) + 1 - k] \notin Whitespace }
    IN  IF ink = {} THEN <<>> ELSE SubSeq(s, 1, Len(s) + 1 - Least(ink))

\* The string without the whitespace around it.
Strip(s) == RStrip(LStrip(s))

\* The string without a leading sign.
Unsigned(s) == IF s # <<>> /\ s[1] \in { "-", "+" } THEN Tail(s) ELSE s

Negative(s) == s # <<>> /\ s[1] = "-"

IsDigit(c) == c \in DOMAIN DecimalValue

\* Decimal digits, with single underscores allowed between two digits.
DigitRun(s) ==
    /\ s # <<>>
    /\ \A k \in 1..Len(s) :
          \/ IsDigit(s[k])
          \/ s[k] = "_" /\ k > 1 /\ k < Len(s) /\ IsDigit(s[k - 1]) /\ IsDigit(s[k + 1])

\* The digit values of a digit run.
DigitsOf(s) ==
    LET d == SelectSeq(s, LAMBDA ch : ch # "_")
    IN  [k \in 1..Len(d) |-> DecimalValue[d[k]]]

(* Naturals of any size, as sequences of digits. *)

\* The number without leading zeros.
Norm(a) ==
    LET nz == { k \in 1..Len(a) : a[k] # 0 }
    IN  IF nz = {} THEN <<>> ELSE SubSeq(a, Least(nz), Len(a))

RECURSIVE NatDigits(_)
NatDigits(n) == IF n = 0 THEN <<>> ELSE Append(NatDigits(n \div 10), n % 10)

\* The number a short digit sequence denotes.
RECURSIVE SmallVal(_)
SmallVal(a) ==
    IF a = <<>> THEN 0 ELSE 10 * SmallVal(SubSeq(a, 1, Len(a) - 1)) + a[Len(a)]

\* -1, 0 or 1 as a < b, a = b or a > b.
Cmp(a, b) ==
    IF Len(a) < Len(b) THEN -1
    ELSE IF Len(a) > Len(b) THEN 1
    ELSE LET diff == { k \in 1..Len(a) : a[k] # b[k] }
         IN  IF diff = {} THEN 0 ELSE IF a[Least(diff)] < b[Least(diff)] THEN -1 ELSE 1

\* a with zeros in front, n digits long.
Pad(a, n) == [k \in 1..(n - Len(a)) |-> 0] \o a

\* The columns lo..hi of a sum whose columns s hold 0..18: their digits and
\* the carry out of them, without (z, zc) and with (o, oc) a carry into them.
RECURSIVE Settle(_, _, _)
Settle(s, lo, hi) ==
    IF lo = hi
    THEN [z |-> <<s[lo] % 10>>, zc |-> s[lo] \div 10,
          o |-> <<(s[lo] + 1) % 10>>, oc |-> (s[lo] + 1) \div 10]
    ELSE LET mid == (lo + hi) \div 2
             left == Settle(s, lo, mid)
             right == Settle(s, mid + 1, hi)
         IN  [z |-> (IF right.zc = 0 THEN left.z ELSE left.o) \o right.z,
              zc |-> IF right.zc = 0 THEN left.zc ELSE left.oc,
              o |-> (IF right.oc = 0 THEN left.z ELSE left.o) \o right.o,
              oc |-> IF right.oc = 0 THEN left.zc ELSE left.oc]

Add(a, b) ==
    LET len == IF Len(a) > Len(b) THEN Len(a) ELSE Len(b)
        x == Pad(a, len)
        y == Pad(b, len)
        sum == Settle([k \in 1..len |-> x[k] + y[k]], 1, len)
    IN  IF len = 0 THEN <<>> ELSE (IF sum.zc = 1 THEN <<1>> ELSE <<>>) \o sum.z

\* a - b, where a >= b: a plus the nines' complement of b plus one, less
\* the carry.
Sub(a, b) ==
    LET y == Pad(b, Len(a))
    IN  IF a = <<>> THEN <<>>
        ELSE Norm(Settle([k \in 1..Len(a) |-> a[k] + 9 - y[k]], 1, Len(a)).o)

Twice(a) == Add(a, a)

\* a * 10^k.
Shift(a, k) == IF a = <<>> THEN <<>> ELSE a \o [i \in 1..k |-> 0]

Odd(a) == a # <<>> /\ a[Len(a)] % 2 = 1

\* The sum of t[lo..hi].
RECURSIVE Sum(_, _, _)
Sum(t, lo, hi) ==
    IF lo > hi THEN 0
    ELSE IF lo = hi THEN t[lo]
    ELSE Sum(t, lo, (lo + hi) \div 2) + Sum(t, (lo + hi) \div 2 + 1, hi)

\* The sum over j..top of the numbers made of the digit 10^j of every
\* column of c.
RECURSIVE Total(_, _, _)
Total(c, j, top) ==
    IF j > top THEN <<>>
    ELSE Add(Shift(Norm([k \in 1..Len(c) |-> (c[k] \div 10^j) % 10]), j),
             Total(c, j + 1, top))

\* a * b: the column sums of the long multiplication, each less than
\* 10^wide, then the carries.
Mul(a, b) ==
    LET wide == Len(NatDigits(81 * (IF Len(a) < Len(b) THEN Len(a) ELSE Len(b))))
        col(k) ==
            LET lo == IF k + 1 - Len(b) > 1 THEN k + 1 - Len(b) ELSE 1
                hi == IF k < Len(a) THEN k ELSE Len(a)
            IN  Sum([i \in lo..hi |-> a[i] * b[k + 1 - i]], lo, hi)
    IN  IF a = <<>> \/ b = <<>> THEN <<>>
        ELSE Total([k \in 1..(Len(a) + Len(b) - 1) |-> col(k)] \o <<>>, 0, wide - 1)

\* 2^k.
RECURSIVE Pow2(_)
Pow2(k) ==
    IF k < 16 THEN NatDigits(2^k)
    ELSE LET half == Pow2(k \div 2)
             sq == Mul(half, half)
         IN  IF k % 2 = 1 THEN Twice(sq) ELSE sq

\* How often den goes into r, and what is left.
RECURSIVE Fit(_, _, _)
Fit(r, den, c) == IF Cmp(r, den) < 0 THEN <<c, r>> ELSE Fit(Sub(r, den), den, c + 1)

\* The digits of the quotient from 10^p down, r being what is left of the
\* dividend above them.
RECURSIVE DivFrom(_, _, _, _)
DivFrom(r, den, p, q) ==
    IF p < 0 THEN [q |-> Norm(q), r |-> r]
    ELSE LET f == Fit(r, Shift(den, p), 0)
         IN  DivFrom(f[2], den, p - 1, Append(q, f[1]))

\* Quotient and remainder of num by den > 0.
DivMod(num, den) == DivFrom(num, den, Len(num) - Len(den), <<>>)

(* int *)

\* sys.int_info.default_max_str_digits of CPython 3.11.
IntMaxStrDigits == 4300

\* int(val) succeeds: whitespace around an optional sign and a digit run of
\* at most IntMaxStrDigits digits.
repr_int(val) ==
    /\ DigitRun(Unsigned(Strip(val)))
    /\ Len(DigitsOf(Unsigned(Strip(val)))) <= IntMaxStrDigits

\* int(val), where repr_int(val).
int(val) ==
    LET mag == Norm(DigitsOf(Unsigned(Strip(val))))
    IN  [neg |-> Negative(Strip(val)) /\ mag # <<>>, mag |-> mag]

\* The int object of n >= 0.
PyInt(n) == [neg |-> FALSE, mag |-> NatDigits(n)]

\* a < b of two ints.
IntLess(a, b) ==
    IF a.neg # b.neg THEN a.neg
    ELSE IF a.neg THEN Cmp(a.mag, b.mag) > 0
    ELSE Cmp(a.mag, b.mag) < 0

\* str(n) of an int.
StrInt(n) ==
    (IF n.neg THEN <<"-">> ELSE <<>>) \o
    (IF n.mag = <<>> THEN <<"0">> ELSE [k \in 1..Len(n.mag) |-> DigitChr[n.mag[k] + 1]])

(* float *)

None == [kind |-> "None", neg |-> FALSE, digits |-> <<>>, pt |-> 0]
NaN == [kind |-> "nan", neg |-> FALSE, digits |-> <<>>, pt |-> 0]
Inf(neg) == [kind |-> "inf", neg |-> neg, digits |-> <<>>, pt |-> 0]
Zero(neg) == [kind |-> "num", neg |-> neg, digits |-> <<>>, pt |-> 0]

\* 2^52 and 2^53: a double is n * 2^e with n < 2^53, and n >= 2^52 unless
\* e = MinExp.
P52 == <<4, 5, 0, 3, 5, 9, 9, 6, 2, 7, 3, 7, 0, 4, 9, 6>>
P53 == <<9, 0, 0, 7, 1, 9, 9, 2, 5, 4, 7, 4, 0, 9, 9, 2>>
MinExp == -1074
MaxExp == 971
\* MAX_ABS_EXP of CPython's dtoa.c: a larger exponent is read as this one.
MaxAbsExp == 1100000000
\* Above 10^MaxDecimal every number is read as infinity, below
\* 10^MinDecimal as zero.
MaxDecimal == 310
MinDecimal == -330

\* The double n * 2^ex, or zero, or infinity, for n <= 2^53.
Double(n, ex) ==
    IF n = <<>> THEN [kind |-> "zero", n |-> <<>>, e |-> 0]
    ELSE IF n = P53 THEN (IF ex + 1 > MaxExp THEN [kind |-> "inf", n |-> <<>>, e |-> 0]
                          ELSE [kind |-> "num", n |-> P52, e |-> ex + 1])
    ELSE IF ex > MaxExp THEN [kind |-> "inf", n |-> <<>>, e |-> 0]
    ELSE [kind |-> "num", n |-> n, e |-> ex]

\* The integer nearest to a quotient, ties to even, given quotient and
\* remainder of the division by den.
HalfEven(dm, den) ==
    IF Cmp(Twice(dm.r), den) > 0 \/ (Cmp(Twice(dm.r), den) = 0 /\ Odd(dm.q))
    THEN Add(dm.q, <<1>>)
    ELSE dm.q

\* The double nearest to num / den * 2^ex, where num / den < 2^53.
Rounded(num, den, ex) == Double(HalfEven(DivMod(num, den), den), ex)

\* The double nearest to num / den * 2^bot, given the exponent ex of its
\* last place.
Scaled(num, den, bot, ex) ==
    Rounded(IF ex < bot THEN Mul(num, Pow2(bot - ex)) ELSE num,
            IF ex > bot THEN Mul(den, Pow2(ex - bot)) ELSE den, ex)

\* The exponent of the last place of a double whose first place has the
\* exponent top.
LastPlace(top) == IF top - 52 < MinExp THEN MinExp ELSE top - 52

\* The double nearest to num / den * 2^bot, where 1 <= num / den < 2^6.
Ratio(num, den, bot) ==
    Scaled(num, den, bot,
           LastPlace(bot + Cardinality({ i \in 1..6 : Cmp(num, Mul(den, Pow2(i))) >= 0 })))

\* A power of two below every number of t digits before the point: at most
\* 2^6 lies between them.
Below(t) == ((t - 1) * 3322) \div 1000 - 1

\* The double nearest to M * 10^X for M > 0, ties to even: n * 2^e, or zero,
\* or infinity.
Nearest(M, X) ==
    Ratio(Mul(IF X >= 0 THEN Shift(M, X) ELSE M,
              Pow2(IF Below(Len(M) + X) < 0 THEN 0 - Below(Len(M) + X) ELSE 0)),
          Mul(IF X >= 0 THEN <<1>> ELSE Shift(<<1>>, 0 - X),
              Pow2(IF Below(Len(M) + X) > 0 THEN Below(Len(M) + X) ELSE 0)),
          Below(Len(M) + X))

\* The number without trailing zeros.
DropZeros(a) ==
    LET nz == { k \in 1..Len(a) : a[Len(a) + 1 - k] # 0 }
    IN  IF nz = {} THEN <<>> ELSE SubSeq(a, 1, Len(a) + 1 - Least(nz))

\* x lies between lo and hi, or on one of them if closed.
Between(x, lo, hi, closed) ==
    IF closed THEN Cmp(x, lo) >= 0 /\ Cmp(x, hi) <= 0 ELSE Cmp(x, lo) > 0 /\ Cmp(x, hi) < 0

\* c * 10^k is read as the double of w: it lies between the midpoints to
\* the doubles below and above, below / p2d and above / p2d, or on one of
\* them if these are themselves read as the double.
Rounds(c, k, w) ==
    Between(Mul(Shift(c, IF k > 0 THEN k ELSE 0), w.p2d),
            Shift(w.below, IF k < 0 THEN 0 - k ELSE 0),
            Shift(w.above, IF k < 0 THEN 0 - k ELSE 0), w.closed)

\* repr keeps at most 17 digits: 17 digits tell any two doubles apart.
ReprDigits == 17

\* Of the p-digit decimals fl below and up above a double, the one that is
\* read as it (okf, okc), the nearer one first; the double has the digits
\* w.q, and more beyond them unless w.exact.
Pick(w, p, fl, up, okf, okc) ==
    LET more == ~w.exact \/ \E j \in (p + 2)..Len(w.q) : w.q[j] # 0
        nearer == w.q[p + 1] < 5 \/ (w.q[p + 1] = 5 /\ ~more /\ ~Odd(fl))
        best == IF okf /\ (~okc \/ nearer) THEN fl ELSE up
    IN  [ok |-> okf \/ okc, digits |-> DropZeros(best), pt |-> Len(best) + w.D - p]

Around(w, p, fl, up) ==
    Pick(w, p, fl, up, Rounds(fl, w.D - p, w),
         /\ w.q[p + 1] # 0 \/ ~w.exact \/ \E j \in (p + 2)..Len(w.q) : w.q[j] # 0
         /\ Rounds(up, w.D - p, w))

\* Of the two p-digit decimals around a double in [10^(D-1), 10^D) those
\* that are read as it, the nearer one first.
Candidate(w, p) == Around(w, p, Norm(SubSeq(w.q, 1, p)), Add(Norm(SubSeq(w.q, 1, p)), <<1>>))

\* The candidate of the least p in lo..hi that has one; hi has one, and
\* with p every greater p has one.
RECURSIVE ShortestFrom(_, _, _)
ShortestFrom(w, lo, hi) ==
    IF lo = hi THEN Candidate(w, lo)
    ELSE IF Candidate(w, (lo + hi) \div 2).ok THEN ShortestFrom(w, lo, (lo + hi) \div 2)
    ELSE ShortestFrom(w, (lo + hi) \div 2 + 1, hi)

\* What repr needs of the double dbl = n * 2^e = vnum / p2d in
\* [10^(D-1), 10^D): its first ReprDigits + 1 digits q, from the division
\* dm, and whether these are all of it; and the midpoints to the doubles
\* below and above, which in units of 2^(e-2) are 4n - 2 (4n - 1 where the
\* doubles below lie closer) and 4n + 2. A decimal between the midpoints is
\* read as dbl, and one on a midpoint if n is even.
Window(dbl, p2n, p2d, D, dm) ==
    [below |-> Mul(Sub(Twice(Twice(dbl.n)),
                       IF dbl.n = P52 /\ dbl.e > MinExp THEN <<1>> ELSE <<2>>), p2n),
     above |-> Mul(Add(Twice(Twice(dbl.n)), <<2>>), p2n),
     p2d |-> Twice(Twice(p2d)),
     closed |-> ~Odd(dbl.n),
     q |-> dm.q,
     exact |-> dm.r = <<>>,
     D |-> D]

\* The division that gives the digits of vnum / p2d down to 10^k.
Leading(vnum, p2d, k) ==
    DivMod(IF k < 0 THEN Shift(vnum, 0 - k) ELSE vnum, IF k > 0 THEN Shift(p2d, k) ELSE p2d)

\* The D with vnum / p2d in [10^(D-1), 10^D).
Magnitude(vnum, p2d) ==
    LET est == Len(vnum) - Len(p2d)
    IN  IF est >= 0 THEN (IF Cmp(vnum, Shift(p2d, est)) >= 0 THEN est + 1 ELSE est)
        ELSE (IF Cmp(Shift(vnum, 0 - est), p2d) >= 0 THEN est + 1 ELSE est)

ShortestIn(dbl, p2n, p2d, vnum, D) ==
    ShortestFrom(Window(dbl, p2n, p2d, D, Leading(vnum, p2d, D - (ReprDigits + 1))),
                 1, ReprDigits)

ShortestOf(dbl, p2n, p2d, vnum) == ShortestIn(dbl, p2n, p2d, vnum, Magnitude(vnum, p2d))

ShortestUnder(dbl, p2n, p2d) == ShortestOf(dbl, p2n, p2d, Mul(dbl.n, p2n))

\* repr's digits of the double dbl = n * 2^e and the place of its point:
\* the shortest decimal that is read as dbl.
Shortest(dbl) ==
    ShortestUnder(dbl, Pow2(IF dbl.e > 0 THEN dbl.e ELSE 0),
                  Pow2(IF dbl.e < 0 THEN 0 - dbl.e ELSE 0))

\* The first place of ch in s, or the place after s.
Place(s, ch) ==
    LET at == { k \in 1..Len(s) : s[k] = ch }
    IN  IF at = {} THEN Len(s) + 1 ELSE Least(at)

\* A text in lower case.
LowerAll(s) == [k \in 1..Len(s) |-> Lower(s[k])]

\* Sign, mantissa and exponent of a text body, low being body in lower case.
Exponented(neg, body, low) ==
    [neg |-> neg,
     low |-> low,
     mant |-> SubSeq(body, 1, Place(low, "e") - 1),
     hasexp |-> Place(low, "e") <= Len(low),
     exp |-> SubSeq(body, Place(low, "e") + 1, Len(body))]

\* The mantissa split at its point.
Pointed(t) ==
    [neg |-> t.neg,
     low |-> t.low,
     ip |-> SubSeq(t.mant, 1, Place(t.mant, ".") - 1),
     fp |-> SubSeq(t.mant, Place(t.mant, ".") + 1, Len(t.mant)),
     hasexp |-> t.hasexp,
     exp |-> t.exp]

\* The text of a float: sign, then a special name or mantissa and exponent.
FloatText(val) ==
    Pointed(Exponented(Negative(Strip(val)), Unsigned(Strip(val)),
                       LowerAll(Unsigned(Strip(val)))))

Specials ==
    { <<"n", "a", "n">>, <<"i", "n", "f">>, <<"i", "n", "f", "i", "n", "i", "t", "y">> }

\* The text is nan, inf or infinity in any case, or digits with an optional
\* point and exponent.
WellFormed(t) ==
    \/ t.low \in Specials
    \/ /\ t.ip = <<>> \/ DigitRun(t.ip)
       /\ t.fp = <<>> \/ DigitRun(t.fp)
       /\ t.ip # <<>> \/ t.fp # <<>>
       /\ t.hasexp => DigitRun(Unsigned(t.exp))

\* float(val) succeeds: whitespace around an optional sign and a well-formed
\* text.
repr_float(val) == WellFormed(FloatText(val))

\* An exponent of the digits ed, as far as MaxAbsExp.
Clamped(ed) ==
    IF Len(ed) > 10 \/ Cmp(ed, NatDigits(MaxAbsExp)) > 0 THEN MaxAbsExp ELSE SmallVal(ed)

\* The exponent a numeric text gives.
ExponentOf(t) ==
    IF ~t.hasexp THEN 0
    ELSE IF Negative(t.exp) THEN 0 - Clamped(Norm(DigitsOf(Unsigned(t.exp))))
    ELSE Clamped(Norm(DigitsOf(Unsigned(t.exp))))

\* The decimal a numeric text denotes, M * 10^X.
DecimalOf(t) ==
    [M |-> Norm(DigitsOf(t.ip) \o DigitsOf(t.fp)),
     X |-> ExponentOf(t) - Len(DigitsOf(t.fp))]

Decimal(val) == DecimalOf(FloatText(val))

\* The float of a sign and repr's digits.
Number(neg, sh) == [kind |-> "num", neg |-> neg, digits |-> sh.digits, pt |-> sh.pt]

\* The float of a sign and a double.
Finite(neg, dbl) ==
    IF dbl.kind = "zero" THEN Zero(neg)
    ELSE IF dbl.kind = "inf" THEN Inf(neg)
    ELSE Number(neg, Shortest(dbl))

\* The float of a text t that denotes the decimal v.
Read(t, v) ==
    IF t.low = <<"n", "a", "n">> THEN NaN
    ELSE IF t.low \in Specials THEN Inf(t.neg)
    ELSE IF v.M = <<>> \/ v.X + Len(v.M) < MinDecimal THEN Zero(t.neg)
    ELSE IF v.X + Len(v.M) > MaxDecimal THEN Inf(t.neg)
    ELSE Finite(t.neg, Nearest(v.M, v.X))

ReadText(t) == Read(t, DecimalOf(t))

\* float(val) computed, where repr_float(val).
strtod(val) == ReadText(FloatText(val))

\* float of the tokens the command lines are made of, computed once.
FloatOfToken ==
    [t \in { x \in Tokens \cup UNION { { a[k] : k \in 1..Len(a) } : a \in Examples } :
                repr_float(x) } |-> strtod(t)]

\* float(val), where repr_float(val).
float(val) == IF val \in DOMAIN FloatOfToken THEN FloatOfToken[val] ELSE strtod(val)

\* The digits before the point, and whether there are digits after it.
IntPart(f) ==
    IF f.pt <= 0 THEN <<>>
    ELSE IF f.pt >= Len(f.digits) THEN Shift(f.digits, f.pt - Len(f.digits))
    ELSE SubSeq(f.digits, 1, f.pt)

HasFrac(f) == f.pt < Len(f.digits)

\* f < n and f > n for a float f and a natural n, as IEEE comparison does it:
\* every comparison with nan is false.
FloatLt(f, n) ==
    CASE f.kind = "num" -> IF f.neg THEN f.digits # <<>> \/ n > 0
                           ELSE Cmp(IntPart(f), NatDigits(n)) < 0
      [] f.kind = "inf" -> f.neg
      [] OTHER -> FALSE

FloatGt(f, n) ==
    CASE f.kind = "num" ->
            /\ ~f.neg
            /\ LET c == Cmp(IntPart(f), NatDigits(n)) IN c > 0 \/ (c = 0 /\ HasFrac(f))
      [] f.kind = "inf" -> ~f.neg
      [] OTHER -> FALSE

Chars(a) == [k \in 1..Len(a) |-> DigitChr[a[k] + 1]]

\* The exponent of repr: a sign and at least two digits.
StrExp(x) ==
    (IF x < 0 THEN <<"-">> ELSE <<"+">>) \o
    (LET d == NatDigits(IF x < 0 THEN 0 - x ELSE x)
     IN  Chars(IF Len(d) < 2 THEN [i \in 1..(2 - Len(d)) |-> 0] \o d ELSE d))

\* str(f) of a float or of None: repr's shortest digits, with an exponent
\* when the point would lie more than 16 digits right or 4 or more left.
StrFloat(f) ==
    CASE f.kind = "None" -> <<"N", "o", "n", "e">>
      [] f.kind = "nan" -> <<"n", "a", "n">>
      [] f.kind = "inf" -> (IF f.neg THEN <<"-">> ELSE <<>>) \o <<"i", "n", "f">>
      [] OTHER ->
            LET n == Len(f.digits)
                body ==
                    IF n = 0 THEN <<"0", ".", "0">>
                    ELSE IF f.pt > 16 \/ f.pt < -3
                         THEN <<DigitChr[f.digits[1] + 1]>> \o
                              (IF n > 1 THEN <<".">> \o Chars(SubSeq(f.digits, 2, n)) ELSE <<>>) \o
                              <<"e">> \o StrExp(f.pt - 1)
                    ELSE IF f.pt <= 0
                         THEN <<"0", ".">> \o Chars([i \in 1..(0 - f.pt) |-> 0] \o f.digits)
                    ELSE IF f.pt >= n
                         THEN Chars(Shift(f.digits, f.pt - n)) \o <<".", "0">>
                    ELSE Chars(SubSeq(f.digits, 1, f.pt)) \o <<".">> \o
                         Chars(SubSeq(f.digits, f.pt + 1, n))
            IN  (IF f.neg THEN <<"-">> ELSE <<>>) \o body

(* ------------------------- module constants --------------------------- *)

HALT == 1
SUCCESS == 0

\* The first line of the usage text stands for the whole text.
HELP == "Usage:  [OPTIONS]  frequency"

\* The package's default dump and save directories.
DUMP == <<"D", "U", "M", "P">>
SAVES == <<"S", "A", "V", "E", "S">>

(* ------------------------------ objects ------------------------------- *)

\* NRSC5.__init__: cmd_args None is the empty sequence.
NRSC5 ==
    [channel |-> PyInt(0), ppm |-> PyInt(0), log |-> PyInt(3), freq |-> None,
     dump_dir |-> DUMP, cmd_args |-> <<>>]

\* UserInterface.__init__: the option fields.
UserInterface == [art |-> FALSE, save_dir |-> SAVES, do_save |-> FALSE]

\* Flag -> handler of UserInterface.__init__.
option_map ==
    t_c :> "channel" @@ t_p :> "ppm" @@ t_l :> "log" @@
    t_a :> "art_set" @@ t_s :> "save_dir_set"

\* What a process call does not return with.
NoReturn == [kind |-> "none", val |-> SUCCESS, exc |-> ""]
Return(code) == [kind |-> "return", val |-> code, exc |-> ""]
Raise(exc) == [kind |-> "raise", val |-> SUCCESS, exc |-> exc]

\* The state a call works on: the two objects, the lines printed, the
\* handlers invoked so far, the last handler's return value and the call's end.
Frame(n, u) ==
    [nrsc5 |-> n, ui |-> u, out |-> <<>>, trace |-> <<>>, ok |-> TRUE, ret |-> NoReturn]

\* print(line).
Emit(st, line) == [st EXCEPT !.out = Append(@, line)]

Fail(st, line) == [Emit(st, line) EXCEPT !.ok = FALSE]

(* ------------------------------ handlers ------------------------------ *)

channel_no_range(st, arg) ==
    IF ~repr_int(arg) THEN Fail(st, "Error: Invalid channel (0 - 3)")
    ELSE [st EXCEPT !.nrsc5.channel = int(arg), !.ok = TRUE]

channel(st, arg) ==
    IF ~repr_int(arg) THEN Fail(st, "Error: Invalid channel (0 - 3)")
    ELSE IF IntLess(int(arg), PyInt(0)) \/ IntLess(PyInt(3), int(arg)) THEN Fail(st, "Error: Invalid channel (0 - 3)")
    ELSE [st EXCEPT !.nrsc5.channel = int(arg), !.ok = TRUE]

\* frequency from the range test on, freq being float(arg).
frequency_range(st, freq) ==
    IF FloatLt(freq, 88) \/ FloatGt(freq, 108)
    THEN Fail(st, "Error: Frequency out of range (88.0 - 108.0)")
    ELSE [st EXCEPT !.nrsc5.freq = freq, !.ok = TRUE]

frequency(st, arg) ==
    IF ~repr_float(arg) THEN Fail(st, "Error: Invalid frequency")
    ELSE frequency_range(st, float(arg))

ppm(st, arg) ==
    IF ~repr_int(arg) THEN Fail(st, "Error: Invalid PPM argument")
    ELSE [st EXCEPT !.nrsc5.ppm = int(arg), !.ok = TRUE]

log_set_first(st, arg) ==
    IF ~repr_int(arg) THEN Fail(st, "Error: Invalid log level (1 - 3)")
    ELSE IF IntLess(int(arg), PyInt(1)) \/ IntLess(PyInt(3), int(arg))
         THEN [Fail(st, "Error: Invalid log level (1 - 3)") EXCEPT !.nrsc5.log = int(arg)]
    ELSE [st EXCEPT !.nrsc5.log = int(arg), !.ok = TRUE]

log(st, arg) ==
    IF ~repr_int(arg) THEN Fail(st, "Error: Invalid log level (1 - 3)")
    ELSE IF IntLess(int(arg), PyInt(1)) \/ IntLess(PyInt(3), int(arg)) THEN Fail(st, "Error: Invalid log level (1 - 3)")
    ELSE [st EXCEPT !.nrsc5.log = int(arg), !.ok = TRUE]

save_dir_set(st, arg) ==
    IF arg \notin ExistingDirs THEN Fail(st, "Error: Invalid directory")
    ELSE [st EXCEPT !.ui.save_dir = arg, !.ui.do_save = TRUE, !.ok = TRUE]

art_set(st, arg) == [st EXCEPT !.ui.art = TRUE, !.ok = TRUE]

\* The invocation of a handler, which ended in r, is recorded.
Traced(fn, pos, arg, r) ==
    [r EXCEPT !.trace = Append(@, [fn |-> fn, pos |-> pos, arg |-> arg, ok |-> r.ok])]

\* self.option_map[flag](arg): the handler runs and its invocation is recorded.
Invoke(fn, pos, st, arg) ==
    Traced(fn, pos, arg,
           CASE fn = "channel" -> channel(st, arg)
             [] fn = "ppm" -> ppm(st, arg)
             [] fn = "log" -> log(st, arg)
             [] fn = "art_set" -> art_set(st, arg)
             [] fn = "save_dir_set" -> save_dir_set(st, arg)
             [] fn = "frequency" -> frequency(st, arg))

(* ------------------------------ process ------------------------------- *)

\* The loop of process from position i on (the source's index i - 1).
RECURSIVE Scan(_, _, _)

\* The loop after the handler of position i has ended in r.
Handled(a, i, r) == IF ~r.ok THEN [r EXCEPT !.ret = Return(HALT)] ELSE Scan(a, i + 1, r)

Scan(a, i, st) ==
    IF i > Len(a) THEN [st EXCEPT !.ret = Return(SUCCESS)]
    ELSE IF a[i] = <<>> THEN [st EXCEPT !.ret = Raise("IndexError")]
    ELSE IF a[i][1] # "-" THEN Scan(a, i + 1, st)
    ELSE IF i < Len(a)
         THEN IF a[i] \notin DOMAIN option_map THEN [st EXCEPT !.ret = Raise("KeyError")]
              ELSE Handled(a, i, Invoke(option_map[a[i]], i, st, a[i + 1]))
    ELSE Scan(a, i + 1, st)

HasHelp(a) == \E k \in 1..Len(a) : a[k] \in { t_h, t_help }

\* process after the frequency check has ended in r.
Checked(a, r) == IF ~r.ok THEN [r EXCEPT !.ret = Return(HALT)] ELSE Scan(a, 1, r)

process_help_late(a, st) ==
    IF Len(a) = 1
    THEN [Emit(st, "Error: No frequency specified") EXCEPT !.ret = Return(HALT)]
    ELSE IF HasHelp(a)
         THEN [Emit(Invoke("frequency", Len(a), st, a[Len(a)]), HELP) EXCEPT !.ret = Return(HALT)]
    ELSE Checked(a, Invoke("frequency", Len(a), st, a[Len(a)]))

process(a, st) ==
    IF HasHelp(a) THEN [Emit(st, HELP) EXCEPT !.ret = Return(HALT)]
    ELSE IF Len(a) = 1
         THEN [Emit(st, "Error: No frequency specified") EXCEPT !.ret = Return(HALT)]
    ELSE Checked(a, Invoke("frequency", Len(a), st, a[Len(a)]))

(* ------------------------------ launcher ------------------------------ *)

format_cmd_swapped(n) ==
    << <<"n", "r", "s", "c", "5">>,
       t_l, StrInt(n.log),
       t_p, StrInt(n.ppm),
       <<"-", "-", "d", "u", "m", "p", "-", "a", "a", "s", "-", "f", "i", "l", "e", "s">>,
       n.dump_dir,
       StrInt(n.channel),
       StrFloat(n.freq) >>

\* NRSC5.format_cmd: the value of cmd_args.
format_cmd(n) ==
    << <<"n", "r", "s", "c", "5">>,
       t_l, StrInt(n.log),
       t_p, StrInt(n.ppm),
       <<"-", "-", "d", "u", "m", "p", "-", "a", "a", "s", "-", "f", "i", "l", "e", "s">>,
       n.dump_dir,
       StrFloat(n.freq),
       StrInt(n.channel) >>

(* --------------------------- state machine ---------------------------- *)

VARIABLES
    nrsc5,      \* the NRSC5 object's fields
    ui,         \* the UserInterface object's option fields
    args,       \* the tokens of the last process call
    ret,        \* how the last process call ended
    out,        \* the lines the last process call printed
    trace,      \* the handlers the last process call invoked, in order
    before,     \* nrsc5 and ui as they were when the last call began
    ncalls,     \* process calls so far
    used,       \* argument tokens given so far
    pc,         \* "main", "raised", "formatted" or "started"
    child       \* the argument vector the child process passed to subprocess.call

vars == <<nrsc5, ui, args, ret, out, trace, before, ncalls, used, pc, child>>

\* __main__ up to the process call: both objects as constructed.
Init ==
    /\ nrsc5 = NRSC5
    /\ ui = UserInterface
    /\ args = <<>>
    /\ ret = NoReturn
    /\ out = <<>>
    /\ trace = <<>>
    /\ before = [nrsc5 |-> NRSC5, ui |-> UserInterface]
    /\ ncalls = 0
    /\ used = 0
    /\ pc = "main"
    /\ child = <<>>

\* The call ui.process(a) has ended in r.  An exception is not caught by
\* __main__ and ends the program.
Ended(a, r) ==
    /\ before' = [nrsc5 |-> nrsc5, ui |-> ui]
    /\ nrsc5' = r.nrsc5
    /\ ui' = r.ui
    /\ args' = a
    /\ ret' = r.ret
    /\ out' = r.out
    /\ trace' = r.trace
    /\ ncalls' = ncalls + 1
    /\ used' = used + Len(a) - 1
    /\ pc' = IF r.ret.kind = "raise" THEN "raised" ELSE "main"
    /\ UNCHANGED child

\* ui.process(a).
Call(a) == Ended(a, process(a, Frame(nrsc5, ui)))

Process ==
    /\ pc = "main"
    /\ ncalls < MaxCalls
    /\ \/ \E k \in 0..(MaxTokens - used) : \E s \in [1..k -> Tokens] : Call(<<prog>> \o s)
       \/ ncalls = 0 /\ \E a \in Examples : Call(a)

\* nrsc5.format_cmd() of __main__, whatever process returned.
FormatCmd ==
    /\ pc = "main"
    /\ ncalls > 0
    /\ nrsc5' = [nrsc5 EXCEPT !.cmd_args = format_cmd(nrsc5)]
    /\ pc' = "formatted"
    /\ UNCHANGED <<ui, args, ret, out, trace, before, ncalls, used, child>>

\* nrsc5.start(): the child runs NRSC5.run, which formats and calls the binary.
Start ==
    /\ pc = "formatted"
    /\ nrsc5' = [nrsc5 EXCEPT !.cmd_args = format_cmd(nrsc5)]
    /\ child' = format_cmd(nrsc5)
    /\ pc' = "started"
    /\ UNCHANGED <<ui, args, ret, out, trace, before, ncalls, used>>

Next == Process \/ FormatCmd \/ Start

Spec == Init /\ [][Next]_vars

(* ----------------------- vocabulary of the claims --------------------- *)

Returned(code) == ret.kind = "return" /\ ret.val = code

\* The fields process may write.
Fields(n, u) == <<n.channel, n.ppm, n.log, n.freq, u.art, u.save_dir, u.do_save>>

Unchanged == Fields(nrsc5, ui) = Fields(before.nrsc5, before.ui)

\* A float that is a number f with 88.0 <= f <= 108.0.
InBand(f) ==
    /\ f.kind = "num"
    /\ ~f.neg
    /\ Len(IntPart(f)) \in { 2, 3 }
    /\ SmallVal(IntPart(f)) \in 88..108
    /\ SmallVal(IntPart(f)) = 108 => ~HasFrac(f)

\* The decimal M * 10^X, taken exactly, is at least n, and at most n.
DecimalGe(v, n) ==
    IF v.X >= 0 THEN Cmp(Shift(v.M, v.X), NatDigits(n)) >= 0
    ELSE Cmp(v.M, Shift(NatDigits(n), 0 - v.X)) >= 0

DecimalLe(v, n) ==
    IF v.X >= 0 THEN Cmp(Shift(v.M, v.X), NatDigits(n)) <= 0
    ELSE Cmp(v.M, Shift(NatDigits(n), 0 - v.X)) <= 0

\* A token that denotes a real number in [88.0, 108.0]: a numeric text
\* (not nan, not an infinity) whose exact value, before any rounding to a
\* double, lies in the band.
ValidFrequency(tok) ==
    /\ repr_float(tok)
    /\ FloatText(tok).low \notin Specials
    /\ ~Negative(Strip(tok))
    /\ Decimal(tok).X + Len(Decimal(tok).M) \in { 2, 3 }
    /\ DecimalGe(Decimal(tok), 88)
    /\ DecimalLe(Decimal(tok), 108)

Last(a) == a[Len(a)]

\* The invocations of option handlers, without the frequency check.
OptTrace == SelectSeq(trace, LAMBDA t : t.fn # "frequency")

\* The positions of an argument vector that hold a flag-shaped, non-final token.
FlagPos(a) == { k \in 1..(Len(a) - 1) : a[k] # <<>> /\ a[k][1] = "-" }

Max(S) == CHOOSE x \in S : \A y \in S : y <= x

(* -------------------------------- C1 ---------------------------------- *)

\* C1: when the child process is started, the frequency field is set (not
\* None), whatever tokens the entry point was given.
C1_FrequencySetAtLaunch == pc = "started" => nrsc5.freq # None

(* -------------------------------- C2 ---------------------------------- *)

\* C2: process ends by returning HALT or SUCCESS and never by raising; an
\* unrecognised non-final flag gives HALT.
C2_ProcessNeverRaises ==
    ncalls > 0 =>
        /\ ret.kind = "return"
        /\ ret.val \in { HALT, SUCCESS }
        /\ (\E k \in FlagPos(args) : args[k] \notin DOMAIN option_map) => Returned(HALT)

(* -------------------------------- C3 ---------------------------------- *)

\* C3: with -h or --help at any position, process returns HALT, prints the
\* usage text and nothing else, runs neither the frequency check nor an
\* option handler, and leaves every field as it was before the call.
C3_HelpShortCircuits ==
    (ncalls > 0 /\ HasHelp(args)) =>
        /\ Returned(HALT)
        /\ out = <<HELP>>
        /\ trace = <<>>
        /\ Unchanged

\* A second call with a help flag and an unrecognised flag, on a configuration
\* the first call has changed.
C3_Witness ==
    /\ ncalls = 2
    /\ HasHelp(args)
    /\ \E k \in 1..Len(args) : args[k] = t_x
    /\ before.nrsc5.freq # None
    /\ nrsc5.freq = before.nrsc5.freq

(* -------------------------------- C4 ---------------------------------- *)

\* C4: for every negative integer n, the tokens [prog, -p, str(n), f] with a
\* valid frequency f return SUCCESS with ppm = n: the argument of -p is not
\* looked up as a flag.
C4_NegativeArgumentIsOpaque ==
    ( /\ ncalls > 0
      /\ Len(args) = 4
      /\ args[2] = t_p
      /\ repr_int(args[3]) /\ int(args[3]).neg
      /\ ValidFrequency(args[4]) ) =>
        /\ Returned(SUCCESS)
        /\ nrsc5.ppm = int(args[3])

(* -------------------------------- C5 ---------------------------------- *)

\* C5: with no help flag and a last token that is not a number in
\* [88.0, 108.0], process returns HALT without invoking an option handler
\* and every field is unchanged.
C5_FrequencyCheckedFirst ==
    (ncalls > 0 /\ ~HasHelp(args) /\ ~ValidFrequency(Last(args))) =>
        /\ Returned(HALT)
        /\ OptTrace = <<>>
        /\ Unchanged

(* -------------------------------- C6 ---------------------------------- *)

\* The argument of the last non-final occurrence of flag, or dflt without one.
LastArg(a, flag, dflt) ==
    LET S == { k \in 1..(Len(a) - 1) : a[k] = flag }
    IN  IF S = {} THEN dflt ELSE int(a[Max(S) + 1])

\* The command vector C6 states for the tokens a, over the defaults d.
Expected(a, d) ==
    << <<"n", "r", "s", "c", "5">>,
       <<"-", "l">>, StrInt(LastArg(a, t_l, d.log)),
       <<"-", "p">>, StrInt(LastArg(a, t_p, d.ppm)),
       <<"-", "-", "d", "u", "m", "p", "-", "a", "a", "s", "-", "f", "i", "l", "e", "s">>,
       DUMP,
       StrFloat(float(Last(a))),
       StrInt(LastArg(a, t_c, d.channel)) >>

\* C6: after process returned SUCCESS, format_cmd gives the 9 elements
\* nrsc5, -l, log, -p, ppm, --dump-aas-files, dump directory, frequency,
\* channel, each value from the last occurrence of its flag or else the
\* default (channel 0, ppm 0, log 3 on a fresh configuration); the example
\* [prog, -c, 2, -p, 5, 95.5] gives [nrsc5, -l, 3, -p, 5, --dump-aas-files,
\* DUMP, 95.5, 2]; the child is started with that vector.
C6_CommandVector ==
    (pc \in { "formatted", "started" } /\ Returned(SUCCESS)) =>
        /\ Len(nrsc5.cmd_args) = 9
        /\ nrsc5.cmd_args = Expected(args, before.nrsc5)
        /\ ncalls = 1 => nrsc5.cmd_args = Expected(args, [channel |-> PyInt(0), ppm |-> PyInt(0), log |-> PyInt(3)])
        /\ args = <<prog, t_c, t_2, t_p, t_5, t_95_5>> =>
              nrsc5.cmd_args =
                 << <<"n", "r", "s", "c", "5">>, <<"-", "l">>, <<"3">>, <<"-", "p">>, <<"5">>,
                    <<"-", "-", "d", "u", "m", "p", "-", "a", "a", "s", "-", "f", "i", "l", "e", "s">>,
                    DUMP, <<"9", "5", ".", "5">>, <<"2">> >>
        /\ pc = "started" => child = nrsc5.cmd_args

\* The child was started after a call that gave -p, -l and -c twice each,
\* with different arguments, returned SUCCESS: every value is the one of the
\* last occurrence and differs from the one of the first.
C6_Witness ==
    /\ pc = "started"
    /\ Returned(SUCCESS)
    /\ args = <<prog, t_p, t_5, t_l, t_2, t_p, t_2, t_l, t_1, t_c, t_1, t_c, t_2, t_90>>
    /\ nrsc5.ppm = PyInt(2) /\ nrsc5.log = PyInt(1) /\ nrsc5.channel = PyInt(2)
    /\ child = << <<"n", "r", "s", "c", "5">>, <<"-", "l">>, <<"1">>, <<"-", "p">>, <<"2">>,
                  <<"-", "-", "d", "u", "m", "p", "-", "a", "a", "s", "-", "f", "i", "l", "e", "s">>,
                  DUMP, <<"9", "0", ".", "0">>, <<"2">> >>

(* -------------------------------- C7 ---------------------------------- *)

\* C7: in every reachable state channel is in 0..3, log is in 1..3 and the
\* frequency is unset or a number in [88.0, 108.0].
C7_FieldRanges ==
    /\ nrsc5.channel \in { PyInt(k) : k \in 0..3 }
    /\ nrsc5.log \in { PyInt(k) : k \in 1..3 }
    /\ nrsc5.freq = None \/ InBand(nrsc5.freq)

(* -------------------------------- C8 ---------------------------------- *)

\* The value a field has after the call: the argument of the last successful
\* invocation of its handler, or the value before the call.
Kept(fn, old, Val(_)) ==
    LET S == { k \in DOMAIN OptTrace : OptTrace[k].fn = fn /\ OptTrace[k].ok }
    IN  IF S = {} THEN old ELSE Val(OptTrace[Max(S)].arg)

Same(x) == x
Yes(x) == TRUE

\* C8: options are handled in token order, none is skipped, and a handler
\* failure is the last invocation and ends the call with HALT; options before
\* it keep what they set, the failing option and the options after it set
\* nothing; SUCCESS only if every option of the tokens was handled and succeeded.
C8_FirstFailureEndsScan ==
    ncalls > 0 =>
        /\ \A j \in DOMAIN OptTrace :
              /\ OptTrace[j].pos \in FlagPos(args)
              /\ OptTrace[j].fn = option_map[args[OptTrace[j].pos]]
              /\ OptTrace[j].arg = args[OptTrace[j].pos + 1]
              /\ \A k \in DOMAIN OptTrace : j < k => OptTrace[j].pos < OptTrace[k].pos
              /\ ~OptTrace[j].ok => (j = Len(OptTrace) /\ Returned(HALT))
        /\ OptTrace # <<>> =>
              { OptTrace[j].pos : j \in DOMAIN OptTrace } =
                 { k \in FlagPos(args) : k <= OptTrace[Len(OptTrace)].pos }
        /\ nrsc5.channel = Kept("channel", before.nrsc5.channel, int)
        /\ nrsc5.ppm = Kept("ppm", before.nrsc5.ppm, int)
        /\ nrsc5.log = Kept("log", before.nrsc5.log, int)
        /\ ui.art = Kept("art_set", before.ui.art, Yes)
        /\ ui.save_dir = Kept("save_dir_set", before.ui.save_dir, Same)
        /\ ui.do_save = Kept("save_dir_set", before.ui.do_save, Yes)
        /\ Returned(SUCCESS) =>
              /\ \A j \in DOMAIN OptTrace : OptTrace[j].ok
              /\ { OptTrace[j].pos : j \in DOMAIN OptTrace } = FlagPos(args)
        /\ (Returned(HALT) /\ OptTrace # <<>>) => ~OptTrace[Len(OptTrace)].ok

\* An option succeeded and changed its field, the next one failed on an
\* integer argument, and an option after it was never handled.
C8_Witness ==
    /\ Returned(HALT)
    /\ Len(OptTrace) = 2
    /\ OptTrace[1].fn = "channel" /\ nrsc5.channel # before.nrsc5.channel
    /\ OptTrace[2].fn = "log" /\ ~OptTrace[2].ok /\ repr_int(OptTrace[2].arg)
    /\ nrsc5.log = before.nrsc5.log
    /\ \E k \in FlagPos(args) : k > OptTrace[2].pos /\ args[k] = t_p
    /\ nrsc5.ppm = before.nrsc5.ppm

(* -------------------------------- C9 ---------------------------------- *)

\* The call ended at position k: a handler failed there, or the lookup or
\* the test of the first character raised there.
EndedAt(k) ==
    \/ \E j \in DOMAIN OptTrace : OptTrace[j].pos = k /\ ~OptTrace[j].ok
    \/ /\ ret.kind = "raise"
       /\ \A j \in DOMAIN OptTrace : OptTrace[j].pos < k
       /\ \A i \in 1..(k - 1) : args[i] # <<>>
       /\ \A i \in FlagPos(args) : i < k => args[i] \in DOMAIN option_map

\* C9: when -a is handled, showAlbumArt is true and the token that follows
\* it, taken as the argument of -a, makes the call fail neither as that
\* argument nor at its own position.
C9_ArtArgumentHarmless ==
    \A j \in DOMAIN OptTrace :
        OptTrace[j].fn = "art_set" =>
            /\ OptTrace[j].ok
            /\ ui.art
            /\ ~EndedAt(OptTrace[j].pos + 1)

(* -------------------------------- C10 --------------------------------- *)

\* ppm, an int, equals the frequency, a float.
IntIsFloat(n, f) ==
    /\ f.kind = "num"
    /\ ~HasFrac(f)
    /\ IntPart(f) = n.mag
    /\ n.mag # <<>> => f.neg = n.neg

\* C10 as stated: for every valid last token f, a sequence ending in
\* [-c, f] or [-l, f] always returns HALT with the frequency set to f, and
\* one ending in [-p, f] returns SUCCESS only if f is an integer string, and
\* then ppm equals the frequency.
C10_Original ==
    (ncalls > 0 /\ Len(args) >= 3 /\ ValidFrequency(Last(args))) =>
        /\ args[Len(args) - 1] \in { t_c, t_l } =>
              /\ Returned(HALT)
              /\ nrsc5.freq = float(Last(args))
        /\ (args[Len(args) - 1] = t_p /\ Returned(SUCCESS)) =>
              /\ repr_int(Last(args))
              /\ IntIsFloat(nrsc5.ppm, nrsc5.freq)

\* C10 amended: with no help flag and a valid last token f the frequency is
\* set to f and f is also the argument of a flag just before it; a sequence
\* ending in [-c, f] or [-l, f] never returns SUCCESS: it returns HALT, or an
\* earlier token raises; one ending in [-p, f] returns SUCCESS only if f is
\* an integer string, and then ppm equals the frequency.
C10_LastTokenUsedTwice ==
    (ncalls > 0 /\ Len(args) >= 3 /\ ValidFrequency(Last(args)) /\ ~HasHelp(args)) =>
        /\ trace # <<>> /\ trace[1].fn = "frequency" /\ trace[1].arg = Last(args)
        /\ nrsc5.freq = float(Last(args))
        /\ args[Len(args) - 1] \in { t_c, t_l } =>
              /\ Returned(HALT) \/ ret.kind = "raise"
              /\ Returned(HALT) =>
                    /\ ~trace[Len(trace)].ok
                    /\ trace[Len(trace)].pos = Len(args) - 1 => trace[Len(trace)].arg = Last(args)
        /\ (args[Len(args) - 1] = t_p /\ Returned(SUCCESS)) =>
              /\ repr_int(Last(args))
              /\ trace[Len(trace)].fn = "ppm" /\ trace[Len(trace)].arg = Last(args)
              /\ IntIsFloat(nrsc5.ppm, nrsc5.freq)

\* The frequency 90 was accepted and then refused as the channel.
C10_Witness ==
    /\ Returned(HALT)
    /\ ~HasHelp(args)
    /\ Len(args) >= 3
    /\ args[Len(args) - 1] = t_c
    /\ Last(args) = t_90
    /\ nrsc5.freq = float(t_90)
    /\ trace[Len(trace)].fn = "channel" /\ trace[Len(trace)].arg = t_90

====
